---- MODULE Spec2Model ----
(***************************************************************************)
(* Order-execution saga of the finance platform: the wallet service        *)
(* (fundWallet, withdrawWallet, buyForex, createWallet, getWalletBalance   *)
(* over wallet and wallet_transaction rows), the transaction service       *)
(* (buyForex, processForexPurchase, succeedOrder, failOrder over           *)
(* forex_order and forex_transaction rows), the retry queue with its       *)
(* consumer, the limit orders (created, cancelled, executed, checked and   *)
(* expired), and the rate streaming gateway of the integration service.    *)
(*                                                                         *)
(* Amounts are integers (minor units).  Every await of the handlers that   *)
(* separates a read of shared rows from a later write is a step boundary,  *)
(* so concurrent calls interleave exactly where the code lets them.        *)
(***************************************************************************)
EXTENDS Integers, Sequences, FiniteSets, TLC

\* ---- program constants ----
MaxRetries == 3

\* ---- bounds of the model ----
MaxOrders == 1
MaxExecs == 5
MaxDirect == 2
MaxSagaDirect == 1
MaxAmount == 2
MaxDeliveries == 2
InitBalance == 1
MaxUsers == 1
MaxLimitOrders == 1
MaxFaultExecs == 3
MaxCancels == 1
MaxChecks == 2
MaxTime == 2
MaxTargetRate == 3
MaxExpiryOrders == 2
MaxSockets == 2

Users == 1..MaxUsers
Currencies == {"USD", "EUR"}
\* currency pairs of the modelled purchases: a rate is quoted between two
\* different currencies
CurrencyPairs == {p \in Currencies \X Currencies : p[1] # p[2]}
Amounts == 1..MaxAmount
\* exchange rates the integration service answers with
Rates == {2}

VARIABLES
  wallets,        \* wallet table: row id = index; [userId, currency, balance]
  walletTxns,     \* wallet_transaction table: [wallet, type, amount]
  calls,          \* calls received by the wallet service, in flight or finished
  orders,         \* forex_order table: row id = index
  forexTxns,      \* forex_transaction table: row id = index
  queue,          \* forex_retry_queue: jobs with the number of deliveries so far
  execs,          \* executions of the transaction service (buyForex / handleRetry)
  notifications,  \* 'send_email' events emitted
  limitOrders,    \* limit_order table: row id = index
  now,            \* the clock the limit-order cron jobs read
  clients,        \* RateStreamingGateway.clients: clientId -> subscription keys
  sockets,        \* WebSocket objects ever connected: clientId stamped, open or not
  pendingRates,   \* sendCurrentRate calls awaiting the exchange rate
  wsSent,         \* messages the latest gateway handler sent
  lastEvent       \* the latest gateway handler and its subscription key

vars == <<wallets, walletTxns, calls, orders, forexTxns, queue, execs, notifications,
          limitOrders, now, clients, sockets, pendingRates, wsSent, lastEvent>>
walletDb == <<wallets, walletTxns>>
limitDb == <<limitOrders, now>>
gatewayDb == <<clients, sockets, pendingRates, wsSent, lastEvent>>
orderDbRows == <<orders, forexTxns, queue, execs, notifications, limitDb>>
orderDb == <<orders, forexTxns, queue, execs, notifications, limitDb, gatewayDb>>

\* ------------------------------------------------------------------------
\* Wallet service
\* ------------------------------------------------------------------------

\* a validation that lets every amount through
validateNothing(balance, amount) == TRUE

\* TRUE when the check passes; FALSE stands for the thrown RpcException.
validateSufficientFund(balance, amount) == ~(balance < amount)

\* validate callback of each operation of handleWalletTransaction
validate(op, balance, amount) ==
  IF op = "withdraw" THEN validateSufficientFund(balance, amount) ELSE TRUE

\* updateBalance callback of each operation
updateBalance(op, balance, amount) ==
  IF op = "fund" THEN balance + amount ELSE balance - amount

\* the code the insufficient-balance RpcException carries
InsufficientCode == "INVALID_ARGUMENT"

NewCall(op, userId, walletId, base, target, amount, exec) ==
  [op |-> op, pc |-> "requested", userId |-> userId, walletId |-> walletId,
   base |-> base, target |-> target, amount |-> amount,
   snapBal |-> 0, targetId |-> 0, targetSnap |-> 0, rate |-> 0,
   code |-> "NONE", exec |-> exec]

Finish(c, code) == [c EXCEPT !.pc = "done", !.code = code]

\* One write of a database transaction.
Write(k, wallet, userId, currency, type, amount) ==
  [k |-> k, wallet |-> wallet, userId |-> userId, currency |-> currency,
   type |-> type, amount |-> amount]

\* a wallet table without its unique constraint
ViolatesNothing(db, w) == FALSE

\* The unique constraint UNIQUE(userId, currency) of the wallet table.
Violates(db, w) ==
  /\ w.k = "insertWallet"
  /\ \E i \in DOMAIN db.wallets :
       db.wallets[i].userId = w.userId /\ db.wallets[i].currency = w.currency

ApplyWrite(db, w) ==
  CASE w.k = "insertWallet" ->
         [db EXCEPT !.wallets = Append(@, [userId |-> w.userId,
                                           currency |-> w.currency,
                                           balance |-> 0])]
    [] w.k = "setBalance" ->
         [db EXCEPT !.wallets[w.wallet].balance = w.amount]
    [] w.k = "insertTxn" ->
         [db EXCEPT !.walletTxns = Append(@, [wallet |-> w.wallet,
                                              type |-> w.type,
                                              amount |-> w.amount])]

\* Runs the writes in order on a working copy; stops at the write that fails
\* (write number failAt, or a write the unique constraint rejects).
RECURSIVE RunWrites(_, _, _, _)
RunWrites(db, ws, i, failAt) ==
  IF i > Len(ws) THEN [ok |-> TRUE, db |-> db]
  ELSE IF i = failAt \/ Violates(db, ws[i]) THEN [ok |-> FALSE, db |-> db]
  ELSE RunWrites(ApplyWrite(db, ws[i]), ws, i + 1, failAt)

\* a broken transaction that keeps the writes made before the failure
TransactionNoRollback(db, ws, failAt) == RunWrites(db, ws, 1, failAt)

\* dataSource.transaction: all writes commit, or the database is unchanged.
Transaction(db, ws, failAt) ==
  LET r == RunWrites(db, ws, 1, failAt)
  IN IF r.ok THEN r ELSE [ok |-> FALSE, db |-> db]

CurrentDb == [wallets |-> wallets, walletTxns |-> walletTxns]

\* calls made to the wallet service directly, not by an order execution
DirectCalls == {c \in DOMAIN calls : calls[c].exec = 0}

\* a lookup of the wallet by its id alone
handleWalletTransactionFindById(op, walletId, userId, amount) ==
  LET c0 == NewCall(op, userId, walletId, "", "", amount, 0)
      found == walletId \in DOMAIN wallets
      c == IF ~found THEN Finish(c0, "NOT_FOUND")
           ELSE IF ~validate(op, wallets[walletId].balance, amount)
                THEN Finish(c0, InsufficientCode)
           ELSE [c0 EXCEPT !.pc = "save", !.snapBal = wallets[walletId].balance]
  IN /\ Cardinality(DirectCalls) < MaxDirect
     /\ calls' = Append(calls, c)
     /\ UNCHANGED <<walletDb, orderDb>>

\* handleWalletTransaction up to the start of its database transaction:
\* findOneOrFail by (id, userId), then validate.
handleWalletTransactionFind(op, walletId, userId, amount) ==
  LET c0 == NewCall(op, userId, walletId, "", "", amount, 0)
      found == walletId \in DOMAIN wallets /\ wallets[walletId].userId = userId
      c == IF ~found THEN Finish(c0, "NOT_FOUND")
           ELSE IF ~validate(op, wallets[walletId].balance, amount)
                THEN Finish(c0, InsufficientCode)
           ELSE [c0 EXCEPT !.pc = "save", !.snapBal = wallets[walletId].balance]
  IN /\ Cardinality(DirectCalls) < MaxDirect
     /\ calls' = Append(calls, c)
     /\ UNCHANGED <<walletDb, orderDb>>

FundWallet(walletId, userId, amount) ==
  handleWalletTransactionFind("fund", walletId, userId, amount)

WithdrawWallet(walletId, userId, amount) ==
  handleWalletTransactionFind("withdraw", walletId, userId, amount)

handleWalletTransactionWrites(c) ==
  << Write("setBalance", c.walletId, 0, "", "",
           updateBalance(c.op, c.snapBal, c.amount)),
     Write("insertTxn", c.walletId, 0, "", c.op, c.amount) >>

\* The database transaction of handleWalletTransaction: the balance computed
\* from the wallet read earlier is saved with the ledger row.
handleWalletTransactionSave(c, failAt) ==
  /\ calls[c].pc = "save"
  /\ calls[c].op \in {"fund", "withdraw"}
  /\ LET ws == handleWalletTransactionWrites(calls[c])
         r == Transaction(CurrentDb, ws, failAt)
     IN /\ failAt \in 0..Len(ws)
        /\ wallets' = r.db.wallets
        /\ walletTxns' = r.db.walletTxns
        /\ calls' = [calls EXCEPT ![c] = Finish(@, IF r.ok THEN "OK" ELSE "ABORTED")]
  /\ UNCHANGED orderDb

WalletsOfCurrency(currency) ==
  {w \in DOMAIN wallets : wallets[w].currency = currency}

\* a buyForex that reports a failed rate lookup as a missing wallet
buyForexStartRateNotFound(c, w, rateRes) ==
  IF ~validateSufficientFund(wallets[w].balance, c.amount)
  THEN Finish(c, InsufficientCode)
  ELSE IF rateRes = 0 THEN Finish(c, "NOT_FOUND")
  ELSE [c EXCEPT !.pc = "findTarget", !.walletId = w,
                 !.snapBal = wallets[w].balance, !.rate = rateRes]

\* buyForex up to the start of its database transaction, for the base wallet
\* w that findBaseWalletOrFail returned: validateSufficientFund, then
\* fetchExchangeRate; rateRes = 0 is a failed rate lookup.
buyForexStart(c, w, rateRes) ==
  IF ~validateSufficientFund(wallets[w].balance, c.amount)
  THEN Finish(c, InsufficientCode)
  ELSE IF rateRes = 0 THEN Finish(c, "ABORTED")
  ELSE [c EXCEPT !.pc = "findTarget", !.walletId = w,
                 !.snapBal = wallets[w].balance, !.rate = rateRes]

\* The outcomes of buyForex up to its database transaction:
\* findBaseWalletOrFail looks the base wallet up by currency.
buyForexStarts(c, rateRes) ==
  IF WalletsOfCurrency(c.base) = {}
  THEN {Finish(c, "NOT_FOUND")}
  ELSE {buyForexStart(c, w, rateRes) : w \in WalletsOfCurrency(c.base)}

\* A buyForex call of a client other than an order execution, up to its
\* database transaction.
BuyForexRequest(userId, base, target, amount, rateRes) ==
  /\ Cardinality(DirectCalls) < MaxDirect
  /\ \E c \in buyForexStarts(NewCall("buyForex", userId, 0, base, target,
                                      amount, 0), rateRes) :
       calls' = Append(calls, c)
  /\ UNCHANGED <<walletDb, orderDb>>

\* The buyForex call of an order execution, up to its database transaction.
BuyForexRead(c, rateRes) ==
  /\ calls[c].pc = "requested"
  /\ calls[c].op = "buyForex"
  /\ \E r \in buyForexStarts(calls[c], rateRes) :
       calls' = [calls EXCEPT ![c] = r]
  /\ UNCHANGED <<walletDb, orderDb>>

\* getOrCreateTargetWalletInTxn: findOneOrFail by currency; targetId = 0 is a
\* wallet created (inserted) inside the transaction.
BuyForexFindTarget(c) ==
  /\ calls[c].pc = "findTarget"
  /\ LET cands == WalletsOfCurrency(calls[c].target)
     IN IF cands = {}
        THEN calls' = [calls EXCEPT ![c].pc = "save", ![c].targetId = 0,
                                    ![c].targetSnap = 0]
        ELSE \E w \in cands :
               calls' = [calls EXCEPT ![c].pc = "save", ![c].targetId = w,
                                      ![c].targetSnap = wallets[w].balance]
  /\ UNCHANGED <<walletDb, orderDb>>

targetWalletAmount(c) == c.amount * c.rate

buyForexWrites(c, db) ==
  LET tid == IF c.targetId = 0 THEN Len(db.wallets) + 1 ELSE c.targetId
  IN (IF c.targetId = 0
      THEN << Write("insertWallet", 0, c.userId, c.target, "", 0) >>
      ELSE << >>)
     \o << Write("setBalance", c.walletId, 0, "", "", c.snapBal - c.amount),
           Write("setBalance", tid, 0, "", "",
                 c.targetSnap + targetWalletAmount(c)),
           Write("insertTxn", c.walletId, 0, "", "debit", c.amount),
           Write("insertTxn", tid, 0, "", "credit", targetWalletAmount(c)) >>

\* The database transaction of buyForex.
BuyForexSave(c, failAt) ==
  /\ calls[c].pc = "save"
  /\ calls[c].op = "buyForex"
  /\ LET ws == buyForexWrites(calls[c], CurrentDb)
         r == Transaction(CurrentDb, ws, failAt)
     IN /\ failAt \in 0..Len(ws)
        /\ wallets' = r.db.wallets
        /\ walletTxns' = r.db.walletTxns
        /\ calls' = [calls EXCEPT ![c] = Finish(@, IF r.ok THEN "OK" ELSE "ABORTED")]
  /\ UNCHANGED orderDb

WalletsOfPair(userId, currency) ==
  {w \in DOMAIN wallets :
     wallets[w].userId = userId /\ wallets[w].currency = currency}

\* createWallet up to its save: findOneBy (userId, currency); an existing
\* wallet is returned, otherwise a wallet with balance 0 is to be saved.
createWalletFind(c) ==
  IF WalletsOfPair(c.userId, c.base) # {}
  THEN [Finish(c, "OK") EXCEPT !.walletId = CHOOSE w \in WalletsOfPair(c.userId, c.base) : TRUE]
  ELSE [c EXCEPT !.pc = "save"]

\* A createWallet call, up to its save.
CreateWallet(userId, currency) ==
  /\ Cardinality(DirectCalls) < MaxDirect
  /\ calls' = Append(calls, createWalletFind(
                  NewCall("createWallet", userId, 0, currency, "", 0, 0)))
  /\ UNCHANGED <<walletDb, orderDb>>

\* getWalletBalance: findOneOrFail by (userId, currency); when that fails
\* the call goes on in createWallet.
GetWalletBalance(userId, currency) ==
  /\ Cardinality(DirectCalls) < MaxDirect
  /\ LET c == NewCall("getWalletBalance", userId, 0, currency, "", 0, 0)
         found == WalletsOfPair(userId, currency)
     IN calls' = Append(calls,
                   IF found # {}
                   THEN [Finish(c, "OK") EXCEPT !.walletId = CHOOSE w \in found : TRUE]
                   ELSE [c EXCEPT !.pc = "create"])
  /\ UNCHANGED <<walletDb, orderDb>>

\* createWallet called by getWalletBalance, up to its save.
GetWalletBalanceCreate(c) ==
  /\ calls[c].op = "getWalletBalance"
  /\ calls[c].pc = "create"
  /\ calls' = [calls EXCEPT ![c] = createWalletFind(@)]
  /\ UNCHANGED <<walletDb, orderDb>>

\* createWallet's walletRepository.save: the insert of the new wallet; an
\* insert that fails leaves the call with an unhandled error.
CreateWalletSave(c, failAt) ==
  /\ calls[c].op \in {"createWallet", "getWalletBalance"}
  /\ calls[c].pc = "save"
  /\ failAt \in 0..1
  /\ LET ws == << Write("insertWallet", 0, calls[c].userId, calls[c].base, "", 0) >>
         r == Transaction(CurrentDb, ws, failAt)
     IN /\ wallets' = r.db.wallets
        /\ walletTxns' = r.db.walletTxns
        /\ calls' = [calls EXCEPT ![c] =
                       IF r.ok THEN [Finish(@, "OK") EXCEPT !.walletId = Len(wallets) + 1]
                       ELSE Finish(@, "UNKNOWN")]
  /\ UNCHANGED orderDb

\* ------------------------------------------------------------------------
\* Transaction service
\* ------------------------------------------------------------------------

Notification(type, orderId, transactionId) ==
  [type |-> type, orderId |-> orderId, transactionId |-> transactionId]

\* a classification that fails the order on every error
hardFailAlways(code) == TRUE

\* a classification that retries an invalid argument
hardFailOnlyNotFound(code) == code = "NOT_FOUND"

\* the switch of processForexPurchase's catchError: TRUE is hardFail
hardFailCode(code) == code \in {"NOT_FOUND", "INVALID_ARGUMENT"}

\* a succeedOrder that notifies the user before its transaction commits
succeedOrderNotifyFirst(o, t, call, fault) ==
  /\ IF fault = 1
     THEN UNCHANGED <<orders, forexTxns>>
     ELSE /\ orders' = [orders EXCEPT ![o].status = "COMPLETED"]
          /\ forexTxns' = [forexTxns EXCEPT ![t].status = "COMPLETED",
                                            ![t].exchangeRate = call.rate,
                                            ![t].targetAmount = targetWalletAmount(call)]
  /\ IF fault = 2
     THEN UNCHANGED notifications
     ELSE notifications' = Append(notifications, Notification("success", o, t))
  /\ UNCHANGED queue

\* succeedOrder: one transaction marks order and transaction COMPLETED, then
\* the user is notified.  fault = n: the n-th await throws and the rest of
\* the method does not run (1 the transaction, which rolls back; 2 notifyUser).
succeedOrder(o, t, call, fault) ==
  /\ IF fault = 1
     THEN UNCHANGED <<orders, forexTxns>>
     ELSE /\ orders' = [orders EXCEPT ![o].status = "COMPLETED"]
          /\ forexTxns' = [forexTxns EXCEPT ![t].status = "COMPLETED",
                                            ![t].exchangeRate = call.rate,
                                            ![t].targetAmount = targetWalletAmount(call)]
  /\ IF fault \in {1, 2}
     THEN UNCHANGED notifications
     ELSE notifications' = Append(notifications, Notification("success", o, t))
  /\ UNCHANGED queue

\* a producer that drops the job
enqueueNothing(orderId, transactionId, errCode) == UNCHANGED queue

\* RetryOrderProducer.enqueue
enqueue(orderId, transactionId, errCode) ==
  queue' = Append(queue, [orderId |-> orderId, transactionId |-> transactionId,
                          errCode |-> errCode, deliveries |-> 0])

\* a failOrder that marks every transaction of the order FAILED
failOrderAllTransactions(o, t, errCode, hardFail, fault) ==
  /\ IF fault = 1
     THEN UNCHANGED forexTxns
     ELSE forexTxns' = [i \in DOMAIN forexTxns |->
                         IF forexTxns[i].orderId = o
                         THEN [forexTxns[i] EXCEPT !.status = "FAILED",
                                                   !.errorStatus = errCode]
                         ELSE forexTxns[i]]
  /\ IF fault \in {1, 2}
     THEN UNCHANGED <<orders, notifications, queue>>
     ELSE IF hardFail
     THEN /\ orders' = [orders EXCEPT ![o].status = "FAILED",
                                      ![o].errorStatus = errCode]
          /\ IF fault = 3
             THEN UNCHANGED notifications
             ELSE notifications' = Append(notifications,
                                          Notification("failure", o, t))
          /\ UNCHANGED queue
     ELSE /\ enqueue(o, t, errCode)
          /\ UNCHANGED <<orders, notifications>>

\* failOrder.  fault = n: the n-th await throws (1 the transaction update;
\* 2 the order update or the enqueue; 3 notifyUser).
failOrder(o, t, errCode, hardFail, fault) ==
  /\ IF fault = 1
     THEN UNCHANGED forexTxns
     ELSE forexTxns' = [forexTxns EXCEPT ![t].status = "FAILED",
                                         ![t].errorStatus = errCode]
  /\ IF fault \in {1, 2}
     THEN UNCHANGED <<orders, notifications, queue>>
     ELSE IF hardFail
     THEN /\ orders' = [orders EXCEPT ![o].status = "FAILED",
                                      ![o].errorStatus = errCode]
          /\ IF fault = 3
             THEN UNCHANGED notifications
             ELSE notifications' = Append(notifications,
                                          Notification("failure", o, t))
          /\ UNCHANGED queue
     ELSE /\ enqueue(o, t, errCode)
          /\ UNCHANGED <<orders, notifications>>

NewForexTxn(o) ==
  [orderId |-> o, status |-> "INITIATED", exchangeRate |-> 0,
   targetAmount |-> 0, errorStatus |-> "NONE"]

\* a save that stores no row
saveNoForexTxn(o) == forexTxns

\* processForexPurchase, first statement: forexTxnRepo.save of a new row
saveForexTxn(o) == Append(forexTxns, NewForexTxn(o))

\* a row of the limit_order table (0 stands for null)
LimitOrder(userId, base, target, amount, targetRate, condition, expiresAt) ==
  [userId |-> userId, baseCurrency |-> base, targetCurrency |-> target,
   amount |-> amount, targetRate |-> targetRate, condition |-> condition,
   status |-> "PENDING", expiresAt |-> expiresAt, checkCount |-> 0,
   lastCheckedAt |-> 0, forexOrderId |-> 0]

\* no LimitOrder entity in memory
NoLimitOrder == [LimitOrder(0, "", "", 0, 0, "", 0) EXCEPT !.status = "NONE"]

\* limit: the id, entity: the in-memory LimitOrder of a limit-order operation
NewExec(kind, pc, o, t, job, call) ==
  [kind |-> kind, pc |-> pc, order |-> o, txn |-> t, job |-> job,
   call |-> call, observed |-> "NONE", fault |-> 0, threw |-> FALSE,
   limit |-> 0, entity |-> NoLimitOrder]

\* TransactionsService.buyForex: save the order PENDING, then
\* processForexPurchase saves the INITIATED transaction and calls the wallet
\* service.
BuyForex(userId, base, target, amount) ==
  /\ Len(orders) < MaxOrders
  /\ LET o == Len(orders) + 1
         t == Len(forexTxns) + 1
         e == Len(execs) + 1
         c == Len(calls) + 1
     IN /\ orders' = Append(orders,
             [userId |-> userId, baseCurrency |-> base, targetCurrency |-> target,
              amount |-> amount, status |-> "PENDING", retryAttempts |-> 0,
              errorStatus |-> "NONE"])
        /\ forexTxns' = saveForexTxn(o)
        /\ calls' = Append(calls, NewCall("buyForex", userId, 0, base, target, amount, e))
        /\ execs' = Append(execs, NewExec("buy", "awaitWallet", o, t, 0, c))
  /\ UNCHANGED <<gatewayDb, walletDb, queue, notifications, limitDb>>

\* The rest of processForexPurchase: the wallet call's outcome reaches the
\* caller and succeedOrder or failOrder runs.  err = "NONE": the caller sees
\* what the wallet service answered; otherwise the call fails at the caller
\* with status err, whatever the wallet service did.  An await that throws
\* in succeedOrder or failOrder is caught nowhere: the execution ends with
\* that exception (threw).
WalletResponse(e, err, fault) ==
  /\ execs[e].kind \in {"buy", "retry"}
  /\ execs[e].pc = "awaitWallet"
  /\ calls[execs[e].call].pc = "done"
  /\ LET call == calls[execs[e].call]
         code == IF err = "NONE" THEN call.code ELSE err
         o == execs[e].order
         t == execs[e].txn
     IN /\ fault \in 0..(IF code # "OK" /\ hardFailCode(code) THEN 3 ELSE 2)
        /\ execs' = [execs EXCEPT ![e].pc = "done", ![e].observed = code,
                                  ![e].fault = fault, ![e].threw = (fault # 0)]
        /\ IF code = "OK" THEN succeedOrder(o, t, call, fault)
           ELSE failOrder(o, t, code, hardFailCode(code), fault)
  /\ UNCHANGED <<gatewayDb, walletDb, calls, limitDb>>

\* ------------------------------------------------------------------------
\* Retry consumer
\* ------------------------------------------------------------------------

\* a handler that counts every delivery twice
HandleRetryIncrementTwice(j) ==
  /\ j \in DOMAIN queue
  /\ queue[j].deliveries < MaxDeliveries
  /\ Len(execs) < MaxExecs
  /\ queue' = [queue EXCEPT ![j].deliveries = @ + 1]
  /\ orders' = [orders EXCEPT ![queue[j].orderId].retryAttempts = @ + 2]
  /\ execs' = Append(execs, NewExec("retry", "retryLoad", queue[j].orderId,
                                    queue[j].transactionId, j, 0))
  /\ UNCHANGED <<gatewayDb, walletDb, calls, forexTxns, notifications, limitDb>>

\* handleRetry, first statement: a delivery of job j increments retryAttempts.
HandleRetryIncrement(j) ==
  /\ j \in DOMAIN queue
  /\ queue[j].deliveries < MaxDeliveries
  /\ Len(execs) < MaxExecs
  /\ queue' = [queue EXCEPT ![j].deliveries = @ + 1]
  /\ orders' = IF queue[j].orderId \in DOMAIN orders
               THEN [orders EXCEPT ![queue[j].orderId].retryAttempts = @ + 1]
               ELSE orders
  /\ execs' = Append(execs, NewExec("retry", "retryLoad", queue[j].orderId,
                                    queue[j].transactionId, j, 0))
  /\ UNCHANGED <<gatewayDb, walletDb, calls, forexTxns, notifications, limitDb>>

\* a comparison that lets the order be executed once more at the maximum
retriesExhaustedLate(retryAttempts) == retryAttempts > MaxRetries

\* handleRetry: forexOrder.retryAttempts >= maxRetries
retriesExhausted(retryAttempts) == retryAttempts >= MaxRetries

\* a handler that goes on when only the order was found
jobRowsFoundOrderOnly(o, t) == o \in DOMAIN orders

\* handleRetry: if (forexOrder && forexTxn), for the rows the two findOne
\* calls looked up by job.data.orderId and job.data.transactionId
jobRowsFound(o, t) == o \in DOMAIN orders /\ t \in DOMAIN forexTxns

\* handleRetry, the rest: load order and transaction, then fail the order
\* for good or execute it again; a job whose rows are missing is dropped.
HandleRetryLoad(e, fault) ==
  /\ execs[e].pc = "retryLoad"
  /\ fault \in 0..3
  /\ LET o == execs[e].order
         job == queue[execs[e].job]
     IN IF jobRowsFound(o, execs[e].txn)
        THEN IF retriesExhausted(orders[o].retryAttempts)
             THEN /\ failOrder(o, execs[e].txn, job.errCode, TRUE, fault)
                  /\ execs' = [execs EXCEPT ![e].pc = "done", ![e].fault = fault,
                                            ![e].threw = (fault # 0)]
                  /\ UNCHANGED calls
             ELSE /\ fault = 0
                  /\ forexTxns' = saveForexTxn(o)
                  /\ calls' = Append(calls,
                       NewCall("buyForex", orders[o].userId, 0,
                               orders[o].baseCurrency, orders[o].targetCurrency,
                               orders[o].amount, e))
                  /\ execs' = [execs EXCEPT ![e].pc = "awaitWallet",
                                            ![e].txn = Len(forexTxns) + 1,
                                            ![e].call = Len(calls) + 1]
                  /\ UNCHANGED <<orders, queue, notifications>>
        ELSE /\ fault = 0
             /\ execs' = [execs EXCEPT ![e].pc = "done"]
             /\ UNCHANGED <<orders, forexTxns, queue, notifications, calls>>
  /\ UNCHANGED <<gatewayDb, walletDb, limitDb>>

\* ------------------------------------------------------------------------
\* Limit orders
\* ------------------------------------------------------------------------

LimitExecs == {e \in DOMAIN execs : execs[e].kind = "limit"}

CancelExecs == {e \in DOMAIN execs : execs[e].kind = "cancel"}

LimitOrderConditions == {"AT_OR_ABOVE", "AT_OR_BELOW", "EXACT"}

\* createLimitOrder: the row is saved PENDING.
CreateLimitOrder(userId, base, target, amount, targetRate, condition, expiresAt) ==
  /\ limitOrders' = Append(limitOrders,
                           LimitOrder(userId, base, target, amount, targetRate,
                                      condition, expiresAt))
  /\ UNCHANGED <<gatewayDb, walletDb, calls, orders, forexTxns, queue, execs,
                 notifications, now>>

\* cancelLimitOrder, the lookup: findOneOrFail by id, userId and status
\* PENDING; it throws when there is no such row.
CancelLimitOrderFind(l, userId) ==
  /\ l \in DOMAIN limitOrders
  /\ Cardinality(CancelExecs) < MaxCancels
  /\ Len(execs) < MaxExecs
  /\ LET found == /\ limitOrders[l].userId = userId
                  /\ limitOrders[l].status = "PENDING"
         e0 == [NewExec("cancel", "cancelSave", 0, 0, 0, 0) EXCEPT !.limit = l]
     IN execs' = Append(execs,
                        IF found
                        THEN [e0 EXCEPT !.entity = limitOrders[l]]
                        ELSE [e0 EXCEPT !.pc = "done", !.threw = TRUE])
  /\ UNCHANGED <<gatewayDb, walletDb, calls, orders, forexTxns, queue, notifications,
                 limitDb>>

\* cancelLimitOrder, the save: the entity found earlier is saved CANCELLED.
CancelLimitOrderSave(e) ==
  /\ execs[e].kind = "cancel"
  /\ execs[e].pc = "cancelSave"
  /\ LET saved == [execs[e].entity EXCEPT !.status = "CANCELLED"]
     IN /\ limitOrders' = [limitOrders EXCEPT ![execs[e].limit] = saved]
        /\ execs' = [execs EXCEPT ![e].pc = "done", ![e].observed = "OK",
                                  ![e].entity = saved]
  /\ UNCHANGED <<gatewayDb, walletDb, calls, orders, forexTxns, queue, notifications, now>>

\* checkRateCondition; EXACT is |currentRate - targetRate| < 0.0001
checkRateCondition(currentRate, targetRate, condition) ==
  CASE condition = "AT_OR_ABOVE" -> currentRate >= targetRate
    [] condition = "AT_OR_BELOW" -> currentRate <= targetRate
    [] condition = "EXACT" ->
         (IF currentRate >= targetRate THEN currentRate - targetRate
          ELSE targetRate - currentRate) * 10000 < 1
    [] OTHER -> FALSE

\* executeLimitOrder up to its wallet call, for the entity of limit order l
\* that its caller loaded PENDING: the entity is saved EXECUTING and buyForex
\* is called on the wallet service.
ExecuteLimitOrder(l) ==
  /\ l \in DOMAIN limitOrders
  /\ limitOrders[l].status = "PENDING"
  /\ Cardinality(LimitExecs) < MaxLimitOrders
  /\ Len(execs) < MaxExecs
  /\ LET saved == [limitOrders[l] EXCEPT !.status = "EXECUTING"]
     IN /\ limitOrders' = [limitOrders EXCEPT ![l] = saved]
        /\ calls' = Append(calls,
                           NewCall("buyForex", saved.userId, 0, saved.baseCurrency,
                                   saved.targetCurrency, saved.amount,
                                   Len(execs) + 1))
        /\ execs' = Append(execs,
                           [NewExec("limit", "awaitWallet", 0, 0, 0, Len(calls) + 1)
                              EXCEPT !.limit = l, !.entity = saved])
  /\ UNCHANGED <<gatewayDb, walletDb, orders, forexTxns, queue, notifications, now>>

\* executeLimitOrder, the rest: on success a ForexOrder row is created
\* COMPLETED for the audit trail, the entity is saved COMPLETED with its
\* forexOrderId and the user is notified; on an error the entity is saved
\* FAILED and the user is notified.
LimitOrderResponse(e, err) ==
  /\ execs[e].kind = "limit"
  /\ execs[e].pc = "awaitWallet"
  /\ calls[execs[e].call].pc = "done"
  /\ LET call == calls[execs[e].call]
         code == IF err = "NONE" THEN call.code ELSE err
         o == Len(orders) + 1
         l == execs[e].limit
         saved == IF code = "OK"
                  THEN [execs[e].entity EXCEPT !.status = "COMPLETED",
                                               !.forexOrderId = o]
                  ELSE [execs[e].entity EXCEPT !.status = "FAILED"]
     IN /\ limitOrders' = [limitOrders EXCEPT ![l] = saved]
        /\ IF code = "OK"
           THEN /\ orders' = Append(orders,
                     [userId |-> call.userId, baseCurrency |-> call.base,
                      targetCurrency |-> call.target, amount |-> call.amount,
                      status |-> "COMPLETED", retryAttempts |-> 0,
                      errorStatus |-> "NONE"])
                /\ execs' = [execs EXCEPT ![e].pc = "done", ![e].observed = code,
                                          ![e].order = o, ![e].entity = saved]
                /\ notifications' = Append(notifications,
                                           Notification("limitExecuted", o, 0))
           ELSE /\ execs' = [execs EXCEPT ![e].pc = "done", ![e].observed = code,
                                          ![e].entity = saved]
                /\ notifications' = Append(notifications,
                                           Notification("limitFailed", 0, 0))
                /\ UNCHANGED orders
  /\ UNCHANGED <<gatewayDb, walletDb, calls, forexTxns, queue, now>>

\* checkPendingLimitOrders: every PENDING limit order gets checkCount + 1
\* and lastCheckedAt = now.  The rate is not fetched and nothing is
\* executed: that part of the method is commented out.
CheckPendingLimitOrders ==
  /\ \E l \in DOMAIN limitOrders : limitOrders[l].status = "PENDING"
  /\ \A l \in DOMAIN limitOrders : limitOrders[l].checkCount < MaxChecks
  /\ limitOrders' = [l \in DOMAIN limitOrders |->
                       IF limitOrders[l].status = "PENDING"
                       THEN [limitOrders[l] EXCEPT !.checkCount = @ + 1,
                                                   !.lastCheckedAt = now]
                       ELSE limitOrders[l]]
  /\ UNCHANGED <<gatewayDb, walletDb, calls, orders, forexTxns, queue, execs,
                 notifications, now>>

\* expireOldLimitOrders with a null expiresAt compared as time 0
ExpireOldLimitOrdersWithNull ==
  /\ limitOrders' = [l \in DOMAIN limitOrders |->
                       IF /\ limitOrders[l].status = "PENDING"
                          /\ limitOrders[l].expiresAt < now
                       THEN [limitOrders[l] EXCEPT !.status = "EXPIRED"]
                       ELSE limitOrders[l]]
  /\ UNCHANGED <<gatewayDb, walletDb, calls, orders, forexTxns, queue, execs,
                 notifications, now>>

\* expireOldLimitOrders: UPDATE ... SET status = EXPIRED
\* WHERE status = PENDING AND expiresAt < now (never true of a null).
ExpireOldLimitOrders ==
  /\ limitOrders' = [l \in DOMAIN limitOrders |->
                       IF /\ limitOrders[l].status = "PENDING"
                          /\ limitOrders[l].expiresAt # 0
                          /\ limitOrders[l].expiresAt < now
                       THEN [limitOrders[l] EXCEPT !.status = "EXPIRED"]
                       ELSE limitOrders[l]]
  /\ UNCHANGED <<gatewayDb, walletDb, calls, orders, forexTxns, queue, execs,
                 notifications, now>>

\* time passes
Tick ==
  /\ now < MaxTime
  /\ now' = now + 1
  /\ UNCHANGED <<gatewayDb, walletDb, calls, orders, forexTxns, queue, execs,
                 notifications, limitOrders>>

\* ------------------------------------------------------------------------
\* Rate streaming gateway (integration service)
\* ------------------------------------------------------------------------

ClientIds == 1..MaxSockets

NoEvent == [kind |-> "none", key |-> ""]

\* the subscription key `${from}:${to}`
subscriptionKey(from, to) == from \o ":" \o to

\* a JSON message sent on socket s
Message(s, event, key) == [socket |-> s, event |-> event, key |-> key]

\* generateClientId: an id no earlier connection was given
generateClientId == ClientIds \ {sockets[s].clientId : s \in DOMAIN sockets}

\* handleConnection of a new socket: the client is registered with no
\* subscription, its id is stored on the socket, the welcome is sent.
handleConnection ==
  /\ Len(sockets) < MaxSockets
  /\ \E clientId \in generateClientId :
       /\ clients' = [id \in DOMAIN clients \cup {clientId} |->
                        IF id = clientId THEN {} ELSE clients[id]]
       /\ sockets' = Append(sockets, [clientId |-> clientId, open |-> TRUE])
  /\ wsSent' = {Message(Len(sockets) + 1, "connection", "")}
  /\ lastEvent' = [kind |-> "connection", key |-> ""]
  /\ UNCHANGED <<walletDb, calls, orderDbRows, pendingRates>>

\* handleDisconnect that closes the socket and keeps the registry entry
handleDisconnectKeep(s) ==
  /\ s \in DOMAIN sockets
  /\ sockets[s].open
  /\ sockets' = [sockets EXCEPT ![s].open = FALSE]
  /\ wsSent' = {}
  /\ lastEvent' = [kind |-> "disconnect", key |-> ""]
  /\ UNCHANGED <<walletDb, calls, orderDbRows, clients, pendingRates>>

\* handleDisconnect of socket s: its client is deleted from the registry.
handleDisconnect(s) ==
  /\ s \in DOMAIN sockets
  /\ sockets[s].open
  /\ sockets' = [sockets EXCEPT ![s].open = FALSE]
  /\ clients' = [id \in DOMAIN clients \ {sockets[s].clientId} |-> clients[id]]
  /\ wsSent' = {}
  /\ lastEvent' = [kind |-> "disconnect", key |-> ""]
  /\ UNCHANGED <<walletDb, calls, orderDbRows, pendingRates>>

\* handleSubscribe: the key is added to the client's subscriptions, the
\* current rate is requested (sent when the lookup answers) and the
\* subscription is acknowledged; an unregistered socket gets an error.
handleSubscribe(s, from, to) ==
  /\ s \in DOMAIN sockets
  /\ sockets[s].open
  /\ LET clientId == sockets[s].clientId
         key == subscriptionKey(from, to)
     IN IF clientId \notin DOMAIN clients
        THEN /\ wsSent' = {Message(s, "error", "")}
             /\ UNCHANGED <<clients, pendingRates>>
        ELSE /\ clients' = [clients EXCEPT ![clientId] = @ \cup {key}]
             /\ pendingRates' = pendingRates \cup {<<s, key>>}
             /\ wsSent' = {Message(s, "subscribed", key)}
  /\ lastEvent' = [kind |-> "subscribe", key |-> subscriptionKey(from, to)]
  /\ UNCHANGED <<walletDb, calls, orderDbRows, sockets>>

\* handleUnsubscribe: the key is deleted from the client's subscriptions and
\* the removal is acknowledged; an unregistered socket gets nothing.
handleUnsubscribe(s, from, to) ==
  /\ s \in DOMAIN sockets
  /\ sockets[s].open
  /\ LET clientId == sockets[s].clientId
         key == subscriptionKey(from, to)
     IN IF clientId \notin DOMAIN clients
        THEN /\ wsSent' = {}
             /\ UNCHANGED clients
        ELSE /\ clients' = [clients EXCEPT ![clientId] = @ \ {key}]
             /\ wsSent' = {Message(s, "unsubscribed", key)}
  /\ lastEvent' = [kind |-> "unsubscribe", key |-> subscriptionKey(from, to)]
  /\ UNCHANGED <<walletDb, calls, orderDbRows, sockets, pendingRates>>

\* handleGetRate: the current rate is requested for the socket.
handleGetRate(s, from, to) ==
  /\ s \in DOMAIN sockets
  /\ sockets[s].open
  /\ pendingRates' = pendingRates \cup {<<s, subscriptionKey(from, to)>>}
  /\ wsSent' = {}
  /\ lastEvent' = [kind |-> "get-rate", key |-> subscriptionKey(from, to)]
  /\ UNCHANGED <<walletDb, calls, orderDbRows, clients, sockets>>

\* sendCurrentRate after its await: the rate, or an error when the lookup
\* failed, is sent on the socket the request came from.
sendCurrentRate(s, key, found) ==
  /\ <<s, key>> \in pendingRates
  /\ pendingRates' = pendingRates \ {<<s, key>>}
  /\ wsSent' = {Message(s, IF found THEN "current-rate" ELSE "error", key)}
  /\ lastEvent' = [kind |-> "current-rate", key |-> key]
  /\ UNCHANGED <<walletDb, calls, orderDbRows, clients, sockets>>

\* the sockets of the registered clients whose subscriptions hold the key
subscribedSockets(key) ==
  {s \in DOMAIN sockets :
     /\ sockets[s].clientId \in DOMAIN clients
     /\ key \in clients[sockets[s].clientId]}

\* broadcastRateUpdate: one rate-update to the socket of every registered
\* client whose subscriptions hold `${from}:${to}`.
broadcastRateUpdate(from, to) ==
  /\ wsSent' = {Message(s, "rate-update", subscriptionKey(from, to)) :
                  s \in subscribedSockets(subscriptionKey(from, to))}
  /\ lastEvent' = [kind |-> "broadcast", key |-> subscriptionKey(from, to)]
  /\ UNCHANGED <<walletDb, calls, orderDbRows, clients, sockets, pendingRates>>

\* ------------------------------------------------------------------------

Init ==
  /\ wallets = << [userId |-> 1, currency |-> "USD", balance |-> InitBalance] >>
  /\ walletTxns = << [wallet |-> 1, type |-> "fund", amount |-> InitBalance] >>
  /\ calls = << >>
  /\ orders = << >>
  /\ forexTxns = << >>
  /\ queue = << >>
  /\ execs = << >>
  /\ notifications = << >>
  /\ limitOrders = << >>
  /\ now = 1
  /\ clients = << >>
  /\ sockets = << >>
  /\ pendingRates = {}
  /\ wsSent = {}
  /\ lastEvent = NoEvent

\* The order saga: orders, their executions and the retry queue.
Next ==
  \/ \E u \in Users, p \in CurrencyPairs, a \in Amounts :
       BuyForex(u, p[1], p[2], a)
  \/ \E c \in DOMAIN calls, r \in {0} \cup Rates : BuyForexRead(c, r)
  \/ \E c \in DOMAIN calls : BuyForexFindTarget(c)
  \/ \E c \in DOMAIN calls, f \in 0..5 : BuyForexSave(c, f)
  \/ \E e \in DOMAIN execs, err \in {"NONE", "UNAVAILABLE"} :
       WalletResponse(e, err, 0)
  \/ \E j \in DOMAIN queue : HandleRetryIncrement(j)
  \/ \E e \in DOMAIN execs : HandleRetryLoad(e, 0)
  \/ \E w \in 1..2, u \in Users, a \in Amounts :
       Cardinality(DirectCalls) < MaxSagaDirect /\ WithdrawWallet(w, u, a)
  \/ \E c \in DOMAIN calls, f \in 0..2 : handleWalletTransactionSave(c, f)

Spec == Init /\ [][Next]_vars

\* The wallet service alone, under concurrent calls of its clients.
NextWallet ==
  \/ \E w \in 1..2, u \in Users, a \in Amounts : FundWallet(w, u, a)
  \/ \E w \in 1..2, u \in Users, a \in Amounts : WithdrawWallet(w, u, a)
  \/ \E u \in Users, p \in CurrencyPairs, a \in Amounts, r \in {0} \cup Rates :
       BuyForexRequest(u, p[1], p[2], a, r)
  \/ \E c \in DOMAIN calls, f \in 0..2 : handleWalletTransactionSave(c, f)
  \/ \E c \in DOMAIN calls : BuyForexFindTarget(c)
  \/ \E c \in DOMAIN calls, f \in 0..5 : BuyForexSave(c, f)
  \/ \E u \in Users, cur \in Currencies : CreateWallet(u, cur)
  \/ \E u \in Users, cur \in Currencies : GetWalletBalance(u, cur)
  \/ \E c \in DOMAIN calls : GetWalletBalanceCreate(c)
  \/ \E c \in DOMAIN calls, f \in 0..1 : CreateWalletSave(c, f)

SpecWallet == Init /\ [][NextWallet]_vars

\* status codes a failed wallet call reaches the caller with, besides the
\* codes the wallet service answers itself
ClientErrors == {"UNAVAILABLE", "DEADLINE_EXCEEDED", "FAILED_PRECONDITION"}

\* The order saga when the transaction service's own awaits (database,
\* queue, notification broker) can throw as well.
NextFaults ==
  \/ \E u \in Users, p \in CurrencyPairs, a \in Amounts :
       BuyForex(u, p[1], p[2], a)
  \/ \E c \in DOMAIN calls, r \in {0} \cup Rates : BuyForexRead(c, r)
  \/ \E c \in DOMAIN calls : BuyForexFindTarget(c)
  \/ \E c \in DOMAIN calls, f \in 0..5 : BuyForexSave(c, f)
  \/ \E e \in DOMAIN execs, err \in {"NONE"} \cup ClientErrors, fault \in 0..3 :
       WalletResponse(e, err, fault)
  \/ \E j \in DOMAIN queue :
       Len(execs) < MaxFaultExecs /\ HandleRetryIncrement(j)
  \/ \E e \in DOMAIN execs, fault \in 0..3 : HandleRetryLoad(e, fault)

SpecFaults == Init /\ [][NextFaults]_vars

\* Orders bought directly and orders recorded by executed limit orders.
NextOrders ==
  \/ \E u \in Users, p \in CurrencyPairs, a \in Amounts :
       BuyForex(u, p[1], p[2], a)
  \/ \E u \in Users, p \in CurrencyPairs, a \in Amounts :
       /\ Len(limitOrders) < MaxLimitOrders
       /\ CreateLimitOrder(u, p[1], p[2], a, 2, "AT_OR_BELOW", 0)
  \/ \E l \in DOMAIN limitOrders : ExecuteLimitOrder(l)
  \/ \E c \in DOMAIN calls, r \in {0} \cup Rates : BuyForexRead(c, r)
  \/ \E c \in DOMAIN calls : BuyForexFindTarget(c)
  \/ \E c \in DOMAIN calls, f \in 0..5 : BuyForexSave(c, f)
  \/ \E e \in DOMAIN execs : WalletResponse(e, "NONE", 0)
  \/ \E e \in DOMAIN execs : LimitOrderResponse(e, "NONE")
  \/ \E j \in DOMAIN queue : HandleRetryIncrement(j)
  \/ \E e \in DOMAIN execs : HandleRetryLoad(e, 0)

SpecOrders == Init /\ [][NextOrders]_vars

\* The order saga under fair scheduling: every wallet call is answered,
\* the worker takes every job off the retry queue once, and every started
\* handler runs to its end or to the await that throws.
Processing ==
  \/ \E c \in DOMAIN calls, r \in {0} \cup Rates : BuyForexRead(c, r)
  \/ \E c \in DOMAIN calls : BuyForexFindTarget(c)
  \/ \E c \in DOMAIN calls, f \in 0..5 : BuyForexSave(c, f)
  \/ \E e \in DOMAIN execs, err \in {"NONE", "UNAVAILABLE"}, fault \in 0..3 :
       WalletResponse(e, err, fault)
  \/ \E j \in DOMAIN queue :
       queue[j].deliveries = 0 /\ HandleRetryIncrement(j)
  \/ \E e \in DOMAIN execs, fault \in 0..3 : HandleRetryLoad(e, fault)

NextFair ==
  \/ \E u \in Users, p \in CurrencyPairs, a \in Amounts :
       BuyForex(u, p[1], p[2], a)
  \/ Processing

SpecFair == Init /\ [][NextFair]_vars /\ WF_vars(Processing)

\* The order saga of one user while another user holds a wallet too: the
\* wallets table is shared by all users of the wallet service.
InitUsers ==
  /\ wallets = << [userId |-> 1, currency |-> "USD", balance |-> InitBalance],
                  [userId |-> MaxUsers + 1, currency |-> "EUR",
                   balance |-> InitBalance] >>
  /\ walletTxns = << [wallet |-> 1, type |-> "fund", amount |-> InitBalance],
                     [wallet |-> 2, type |-> "fund", amount |-> InitBalance] >>
  /\ calls = << >>
  /\ orders = << >>
  /\ forexTxns = << >>
  /\ queue = << >>
  /\ execs = << >>
  /\ notifications = << >>
  /\ limitOrders = << >>
  /\ now = 1
  /\ clients = << >>
  /\ sockets = << >>
  /\ pendingRates = {}
  /\ wsSent = {}
  /\ lastEvent = NoEvent

NextUsers ==
  \/ \E u \in Users, p \in CurrencyPairs, a \in Amounts :
       BuyForex(u, p[1], p[2], a)
  \/ \E c \in DOMAIN calls, r \in {0} \cup Rates : BuyForexRead(c, r)
  \/ \E c \in DOMAIN calls : BuyForexFindTarget(c)
  \/ \E c \in DOMAIN calls, f \in 0..5 : BuyForexSave(c, f)
  \/ \E e \in DOMAIN execs : WalletResponse(e, "NONE", 0)
  \/ \E j \in DOMAIN queue :
       queue[j].deliveries = 0 /\ HandleRetryIncrement(j)
  \/ \E e \in DOMAIN execs : HandleRetryLoad(e, 0)

SpecUsers == InitUsers /\ [][NextUsers]_vars

\* The order saga when the retry queue still holds jobs whose rows are gone:
\* the queue lives in Redis and outlives the rows of the database.  The
\* first job names an order that does not exist, the second a transaction
\* that does not exist.
InitStale ==
  /\ wallets = << [userId |-> 1, currency |-> "USD", balance |-> InitBalance] >>
  /\ walletTxns = << [wallet |-> 1, type |-> "fund", amount |-> InitBalance] >>
  /\ calls = << >>
  /\ orders = << >>
  /\ forexTxns = << >>
  /\ queue = << [orderId |-> MaxOrders + 1, transactionId |-> 1,
                 errCode |-> "ABORTED", deliveries |-> 0],
                [orderId |-> 1, transactionId |-> MaxExecs + 1,
                 errCode |-> "ABORTED", deliveries |-> 0] >>
  /\ execs = << >>
  /\ notifications = << >>
  /\ limitOrders = << >>
  /\ now = 1
  /\ clients = << >>
  /\ sockets = << >>
  /\ pendingRates = {}
  /\ wsSent = {}
  /\ lastEvent = NoEvent

NextStale ==
  \/ \E u \in Users, p \in CurrencyPairs, a \in Amounts :
       BuyForex(u, p[1], p[2], a)
  \/ \E c \in DOMAIN calls, r \in {0} \cup Rates : BuyForexRead(c, r)
  \/ \E c \in DOMAIN calls : BuyForexFindTarget(c)
  \/ \E c \in DOMAIN calls, f \in 0..5 : BuyForexSave(c, f)
  \/ \E e \in DOMAIN execs : WalletResponse(e, "NONE", 0)
  \/ \E j \in DOMAIN queue :
       queue[j].deliveries = 0 /\ HandleRetryIncrement(j)
  \/ \E e \in DOMAIN execs : HandleRetryLoad(e, 0)

SpecStale == InitStale /\ [][NextStale]_vars

\* fundWallet and withdrawWallet called by two users, each for any wallet id.
NextOwners ==
  \/ \E w \in 1..2, u \in 1..(MaxUsers + 1), a \in Amounts : FundWallet(w, u, a)
  \/ \E w \in 1..2, u \in 1..(MaxUsers + 1), a \in Amounts :
       WithdrawWallet(w, u, a)
  \/ \E c \in DOMAIN calls, f \in 0..2 : handleWalletTransactionSave(c, f)

SpecOwners == InitUsers /\ [][NextOwners]_vars

\* The amounts BuyForexInputDto lets through: @IsNumberString() accepts any
\* numeric string, with a sign or "0".
BuyAmounts == (0 - 1)..MaxAmount

\* The order saga for every amount the request validation accepts.
NextAmounts ==
  \/ \E u \in Users, p \in CurrencyPairs, a \in BuyAmounts :
       BuyForex(u, p[1], p[2], a)
  \/ \E c \in DOMAIN calls, r \in {0} \cup Rates : BuyForexRead(c, r)
  \/ \E c \in DOMAIN calls : BuyForexFindTarget(c)
  \/ \E c \in DOMAIN calls, f \in 0..5 : BuyForexSave(c, f)
  \/ \E e \in DOMAIN execs : WalletResponse(e, "NONE", 0)
  \/ \E j \in DOMAIN queue :
       queue[j].deliveries = 0 /\ HandleRetryIncrement(j)
  \/ \E e \in DOMAIN execs : HandleRetryLoad(e, 0)

SpecAmounts == Init /\ [][NextAmounts]_vars

\* Limit orders: created, cancelled, executed, checked and expired while
\* time passes.
NextLimit ==
  \/ \E u \in Users, p \in CurrencyPairs, a \in Amounts,
        tr \in 1..MaxTargetRate, cond \in LimitOrderConditions, exp \in 0..1 :
       /\ Len(limitOrders) < MaxLimitOrders
       /\ CreateLimitOrder(u, p[1], p[2], a, tr, cond, exp)
  \/ \E l \in DOMAIN limitOrders, u \in Users : CancelLimitOrderFind(l, u)
  \/ \E e \in DOMAIN execs : CancelLimitOrderSave(e)
  \/ \E l \in DOMAIN limitOrders : ExecuteLimitOrder(l)
  \/ \E c \in DOMAIN calls, r \in {0} \cup Rates : BuyForexRead(c, r)
  \/ \E c \in DOMAIN calls : BuyForexFindTarget(c)
  \/ \E c \in DOMAIN calls, f \in 0..5 : BuyForexSave(c, f)
  \/ \E e \in DOMAIN execs, err \in {"NONE", "UNAVAILABLE"} :
       LimitOrderResponse(e, err)
  \/ CheckPendingLimitOrders
  \/ ExpireOldLimitOrders
  \/ Tick

SpecLimit == Init /\ [][NextLimit]_vars

\* The expiry job among limit orders of every status: up to MaxExpiryOrders
\* USD->EUR orders, good-til-cancelled (expiresAt 0) or with an expiry time,
\* are created, cancelled, checked and executed while time passes.
NextExpire ==
  \/ \E u \in Users, exp \in 0..MaxTime :
       /\ Len(limitOrders) < MaxExpiryOrders
       /\ CreateLimitOrder(u, "USD", "EUR", 1, 2, "AT_OR_BELOW", exp)
  \/ \E l \in DOMAIN limitOrders, u \in Users : CancelLimitOrderFind(l, u)
  \/ \E e \in DOMAIN execs : CancelLimitOrderSave(e)
  \/ \E l \in DOMAIN limitOrders : ExecuteLimitOrder(l)
  \/ \E c \in DOMAIN calls, r \in Rates : BuyForexRead(c, r)
  \/ \E c \in DOMAIN calls : BuyForexFindTarget(c)
  \/ \E c \in DOMAIN calls : BuyForexSave(c, 0)
  \/ \E e \in DOMAIN execs : LimitOrderResponse(e, "NONE")
  \/ CheckPendingLimitOrders
  \/ ExpireOldLimitOrders
  \/ Tick

SpecExpire == Init /\ [][NextExpire]_vars

\* The rate streaming gateway: sockets connect, subscribe to and unsubscribe
\* from currency pairs, ask for rates and disconnect, while rate updates are
\* broadcast.
NextGateway ==
  \/ handleConnection
  \/ \E s \in DOMAIN sockets : handleDisconnect(s)
  \/ \E s \in DOMAIN sockets, p \in CurrencyPairs :
       handleSubscribe(s, p[1], p[2])
  \/ \E s \in DOMAIN sockets, p \in CurrencyPairs :
       handleUnsubscribe(s, p[1], p[2])
  \/ \E s \in DOMAIN sockets, p \in CurrencyPairs :
       handleGetRate(s, p[1], p[2])
  \/ \E r \in pendingRates, found \in BOOLEAN :
       sendCurrentRate(r[1], r[2], found)
  \/ \E p \in CurrencyPairs : broadcastRateUpdate(p[1], p[2])

SpecGateway == Init /\ [][NextGateway]_vars

\* ------------------------------------------------------------------------
\* Properties
\* ------------------------------------------------------------------------

BuyForexCommitted(c) ==
  calls[c].op = "buyForex" /\ calls[c].pc = "done" /\ calls[c].code = "OK"

\* committed wallet transfers made for order o
Transfers(o) ==
  {c \in DOMAIN calls :
     /\ BuyForexCommitted(c)
     /\ calls[c].exec # 0
     /\ execs[calls[c].exec].order = o}

\* committed wallet transfers made by the handlers of retry job j
TransfersByJob(j) ==
  {c \in DOMAIN calls :
     /\ BuyForexCommitted(c)
     /\ calls[c].exec # 0
     /\ execs[calls[c].exec].job = j}

Signed(txn) ==
  IF txn.type \in {"credit", "fund"} THEN txn.amount ELSE 0 - txn.amount

RECURSIVE SignedSum(_, _, _)
SignedSum(txns, w, i) ==
  IF i > Len(txns) THEN 0
  ELSE (IF txns[i].wallet = w THEN Signed(txns[i]) ELSE 0)
       + SignedSum(txns, w, i + 1)

DebitCall(c) == c.op \in {"withdraw", "buyForex"}

\* C1: the handlers of one retry job, however often the job is delivered,
\* commit at most one wallet transfer.
C1_DuplicateJobTransfersOnce ==
  \A j \in DOMAIN queue : Cardinality(TransfersByJob(j)) <= 1

\* C2: when handleRetry passes an order that is already COMPLETED to
\* processForexPurchase, no ForexTransaction is created, no wallet call is
\* made and the order is left as it is.
C2_CompletedOrderNotReexecuted ==
  [][\A e \in DOMAIN execs :
       ( /\ execs[e].pc = "retryLoad"
         /\ execs'[e].pc # "retryLoad"
         /\ orders[execs[e].order].status = "COMPLETED"
         /\ orders[execs[e].order].retryAttempts < MaxRetries )
       => ( /\ forexTxns' = forexTxns
            /\ calls' = calls
            /\ orders' = orders )]_vars

\* C3: an order that is COMPLETED or FAILED keeps that status in every step.
C3_TerminalStatusIsFinal ==
  [][\A o \in DOMAIN orders :
       orders[o].status # "PENDING" => orders'[o].status = orders[o].status]_vars

\* C4: with every retry job delivered at most once (so only a lost response
\* can hide a committed transfer from the caller), no order has more than one
\* committed wallet transfer and no FAILED order has a committed transfer.
C4_NoDoubleSpendOnLostResponse ==
  (\A j \in DOMAIN queue : queue[j].deliveries <= 1)
  => \A o \in DOMAIN orders :
       /\ Cardinality(Transfers(o)) <= 1
       /\ orders[o].status = "FAILED" => Transfers(o) = {}

\* C5: every wallet's balance is greater than or equal to zero.
C5_BalanceNeverNegative ==
  \A w \in DOMAIN wallets : wallets[w].balance >= 0

\* C5 witness: two debits of one wallet both committed from the same balance
\* read, although that balance does not cover their sum.
C5_Witness ==
  \E c1 \in DOMAIN calls, c2 \in DOMAIN calls :
    /\ c1 # c2
    /\ DebitCall(calls[c1]) /\ DebitCall(calls[c2])
    /\ calls[c1].code = "OK" /\ calls[c2].code = "OK"
    /\ calls[c1].walletId = calls[c2].walletId
    /\ calls[c1].amount + calls[c2].amount > calls[c1].snapBal
    /\ calls[c1].snapBal = calls[c2].snapBal

\* C6: each wallet's balance equals the signed sum of its WalletTransaction
\* rows (credit and fund positive, debit and withdraw negative).
C6_BalanceEqualsLedgerSum ==
  \A w \in DOMAIN wallets : wallets[w].balance = SignedSum(walletTxns, w, 1)

\* wallet w has been the object of debits only: no call funds it or credits it
OnlyDebited(w) ==
  \A d \in DOMAIN calls :
    /\ calls[d].op # "fund"
    /\ calls[d].target # wallets[w].currency

\* C7: among operations that debit the same wallet, a debit of a wallet commits a balance computed from the balance that
\* is committed at that moment: the balance it read for its sufficiency check
\* is still the wallet's balance when its transaction commits.
C7_DebitsSerialize ==
  [][\A c \in DOMAIN calls :
       ( /\ DebitCall(calls[c])
         /\ calls[c].pc = "save"
         /\ calls'[c].code = "OK"
         /\ OnlyDebited(calls[c].walletId) )
       => calls[c].snapBal = wallets[calls[c].walletId].balance]_vars

\* C8: a buyForex whose database transaction fails at any step leaves the
\* wallets (rows and balances) and the WalletTransaction rows unchanged and
\* fails with ABORTED.
C8_BuyForexAllOrNothing ==
  [][\A c \in DOMAIN calls :
       ( /\ calls[c].op = "buyForex"
         /\ calls[c].pc = "save"
         /\ calls'[c].pc = "done"
         /\ calls'[c].code # "OK" )
       => ( /\ wallets' = wallets
            /\ walletTxns' = walletTxns
            /\ calls'[c].code = "ABORTED" )]_vars

\* C8 witness: a buyForex that got its rate, entered its transaction and was
\* aborted.
C8_Witness ==
  \E c \in DOMAIN calls :
    /\ calls[c].op = "buyForex"
    /\ calls[c].pc = "done"
    /\ calls[c].code = "ABORTED"
    /\ calls[c].rate # 0

\* the step in which call c is rejected because the wallet it debits holds
\* less than the requested amount
RejectedForBalance(c) ==
  \/ /\ c \notin DOMAIN calls
     /\ calls'[c].op = "withdraw"
     /\ calls'[c].walletId \in DOMAIN wallets
     /\ wallets[calls'[c].walletId].userId = calls'[c].userId
     /\ wallets[calls'[c].walletId].balance < calls'[c].amount
  \/ /\ c \notin DOMAIN calls \/ calls[c].pc = "requested"
     /\ calls'[c].op = "buyForex"
     /\ calls'[c].pc = "done"
     /\ WalletsOfCurrency(calls'[c].base) # {}
     /\ \A w \in WalletsOfCurrency(calls'[c].base) :
          wallets[w].balance < calls'[c].amount

\* C9: a withdrawWallet or buyForex on a wallet holding less than the amount
\* fails with FAILED_PRECONDITION and writes nothing.
C9_InsufficientFailsPrecondition ==
  [][\A c \in DOMAIN calls' :
       RejectedForBalance(c)
       => ( /\ calls'[c].code = "FAILED_PRECONDITION"
            /\ calls'[c].pc = "done"
            /\ wallets' = wallets
            /\ walletTxns' = walletTxns )]_vars

\* the step in which execution e learns that its wallet call was rejected
\* for insufficient balance
ObservesInsufficient(e) ==
  /\ execs[e].pc = "awaitWallet"
  /\ execs'[e].pc = "done"
  /\ execs'[e].observed = InsufficientCode
  /\ calls[execs[e].call].code = InsufficientCode

FailedInSameExecution(e) ==
  LET o == execs[e].order
      t == execs[e].txn
  IN /\ orders'[o].status = "FAILED"
     /\ forexTxns'[t].status = "FAILED"
     /\ queue' = queue
     /\ wallets' = wallets
     /\ walletTxns' = walletTxns
     /\ notifications' = Append(notifications, Notification("failure", o, t))

\* C10 (as amended): when an execution's wallet transfer fails for
\* insufficient balance, that execution marks the order and its
\* ForexTransaction FAILED, enqueues no retry job, mutates no wallet, emits a
\* failure notification and leaves retryAttempts as it was (0 when it is the
\* order's first execution).
C10_InsufficientFailsAtOnce ==
  [][\A e \in DOMAIN execs :
       ObservesInsufficient(e)
       => ( /\ FailedInSameExecution(e)
            /\ orders'[execs[e].order].retryAttempts
                 = orders[execs[e].order].retryAttempts
            /\ execs[e].kind = "buy"
                 => orders'[execs[e].order].retryAttempts = 0 )]_vars

\* C10 as stated: retryAttempts is 0 after such an execution, here for an
\* order that had no wallet transfer committed before and no response lost.
C10_RetryAttemptsStaysZero ==
  [][\A e \in DOMAIN execs :
       ( /\ ObservesInsufficient(e)
         /\ Transfers(execs[e].order) = {}
         /\ \A d \in DOMAIN execs : execs[d].observed # "UNAVAILABLE" )
       => ( /\ FailedInSameExecution(e)
            /\ orders'[execs[e].order].retryAttempts = 0 )]_vars

\* C10 witness: an execution ended on an insufficient-balance rejection with
\* its order and transaction FAILED.
C10_Witness ==
  \E e \in DOMAIN execs :
    /\ execs[e].pc = "done"
    /\ execs[e].observed = InsufficientCode
    /\ orders[execs[e].order].status = "FAILED"
    /\ forexTxns[execs[e].txn].status = "FAILED"

\* the step in which execution e learns that its wallet call failed with a
\* transient status and failOrder runs to its end
FailsTransiently(e) ==
  /\ execs[e].pc = "awaitWallet"
  /\ execs'[e].pc = "done"
  /\ execs'[e].observed \in {"ABORTED", "UNAVAILABLE", "DEADLINE_EXCEEDED"}
  /\ execs'[e].fault = 0

PendingRetryJob(o) ==
  \E j \in DOMAIN queue : queue[j].orderId = o /\ queue[j].deliveries = 0

\* an execution of order o has not ended
ExecutionInFlight(o) ==
  \E e \in DOMAIN execs : execs[e].order = o /\ execs[e].pc # "done"

\* C12: once no execution of it is running, an order is in a terminal state
\* or is PENDING with a retry job waiting in the queue, whichever await of
\* its executions failed.
C12_FailureLeavesTerminalOrRetry ==
  \A o \in DOMAIN orders :
    \/ orders[o].status \in {"COMPLETED", "FAILED"}
    \/ PendingRetryJob(o)
    \/ ExecutionInFlight(o)

\* executions of order o that reached processForexPurchase
AttemptsOf(o) ==
  {e \in DOMAIN execs :
     /\ execs[e].kind \in {"buy", "retry"}
     /\ execs[e].order = o
     /\ execs[e].call # 0}

TransientlyFailed(e) ==
  /\ execs[e].pc = "done"
  /\ execs[e].observed \in {"ABORTED", "UNAVAILABLE", "DEADLINE_EXCEEDED"}

RECURSIVE FailureNotifications(_, _)
FailureNotifications(o, i) ==
  IF i > Len(notifications) THEN 0
  ELSE (IF notifications[i].type = "failure" /\ notifications[i].orderId = o
        THEN 1 ELSE 0) + FailureNotifications(o, i + 1)

\* C13: an order that is FAILED and whose every execution attempt failed
\* transiently has retryAttempts equal to the maximum and exactly one
\* permanent-failure notification.
C13_ExhaustedOrderFailsOnce ==
  \A o \in DOMAIN orders :
    ( /\ orders[o].status = "FAILED"
      /\ \A e \in AttemptsOf(o) : TransientlyFailed(e) )
    => ( /\ orders[o].retryAttempts = MaxRetries
         /\ FailureNotifications(o, 1) = 1 )

\* C14: an order in status FAILED has retryAttempts less than or equal to
\* the configured maximum.
C14_FailedOrderWithinMaxRetries ==
  \A o \in DOMAIN orders :
    orders[o].status = "FAILED" => orders[o].retryAttempts <= MaxRetries

\* execution e's wallet call failed in fetchExchangeRate and e saw that
RateLookupFailed(e) ==
  /\ execs[e].pc = "done"
  /\ execs[e].observed = "ABORTED"
  /\ calls[execs[e].call].code = "ABORTED"
  /\ calls[execs[e].call].rate = 0

\* order o was attempted three times: the rate lookup failed in the first
\* two attempts and the third succeeded
ThirdAttemptSucceeded(o) ==
  /\ Cardinality(AttemptsOf(o)) = 3
  /\ \E e3 \in AttemptsOf(o) :
       /\ execs[e3].pc = "done"
       /\ execs[e3].observed = "OK"
       /\ \A e \in AttemptsOf(o) \ {e3} :
            RateLookupFailed(e) /\ execs[e].call < execs[e3].call

\* C15: once nothing is left to run for it, an order whose rate lookup failed
\* on the first two attempts and whose third attempt succeeded is COMPLETED
\* with retryAttempts = 2 and exactly one committed wallet transfer.
C15_ThirdAttemptCompletes ==
  \A o \in DOMAIN orders :
    ( /\ ThirdAttemptSucceeded(o)
      /\ ~ExecutionInFlight(o)
      /\ ~PendingRetryJob(o) )
    => ( /\ orders[o].status = "COMPLETED"
         /\ orders[o].retryAttempts = 2
         /\ Cardinality(Transfers(o)) = 1 )

\* the ForexTransaction rows of order o
TransactionsOf(o) == {t \in DOMAIN forexTxns : forexTxns[t].orderId = o}

\* order o was recorded by an executed limit order
OfLimitOrder(o) == \E e \in LimitExecs : execs[e].order = o

HandleRetryStep(o) ==
  \/ \E j \in DOMAIN queue :
       queue[j].orderId = o /\ queue'[j].deliveries = queue[j].deliveries + 1
  \/ \E e \in DOMAIN execs :
       /\ execs[e].order = o
       /\ execs[e].pc = "retryLoad"
       /\ execs'[e].pc # "retryLoad"

\* C17: a step of handleRetry for an order that is COMPLETED or FAILED
\* changes neither the order rows, nor the ForexTransaction rows, nor the
\* wallets, nor the notifications.
C17_TerminalOrderRetryIsNoOp ==
  [][\A o \in DOMAIN orders :
       (HandleRetryStep(o) /\ orders[o].status \in {"COMPLETED", "FAILED"})
       => ( /\ orders' = orders
            /\ forexTxns' = forexTxns
            /\ wallets' = wallets
            /\ notifications' = notifications )]_vars

HandlesWalletError(e) ==
  /\ execs[e].pc = "awaitWallet"
  /\ execs'[e].pc = "done"
  /\ execs'[e].observed # "OK"
  /\ execs'[e].fault = 0

\* execution e treats the error as permanent: the order is FAILED, nothing
\* is enqueued
TreatedAsPermanent(e) ==
  /\ orders'[execs[e].order].status = "FAILED"
  /\ queue' = queue

\* execution e treats the error as transient: a retry job is enqueued
TreatedAsTransient(e) ==
  /\ Len(queue') = Len(queue) + 1
  /\ queue'[Len(queue')].transactionId = execs[e].txn
  /\ orders' = orders

\* C19: processForexPurchase treats a wallet-call error as permanent exactly
\* when its code is NOT_FOUND, INVALID_ARGUMENT or FAILED_PRECONDITION, and
\* as transient when it is ABORTED, UNAVAILABLE or DEADLINE_EXCEEDED.
C19_ErrorClassification ==
  [][\A e \in DOMAIN execs :
       HandlesWalletError(e)
       => LET code == execs'[e].observed
          IN /\ TreatedAsPermanent(e)
                  <=> code \in {"NOT_FOUND", "INVALID_ARGUMENT",
                                "FAILED_PRECONDITION"}
             /\ code \in {"ABORTED", "UNAVAILABLE", "DEADLINE_EXCEEDED"}
                  => TreatedAsTransient(e)]_vars

\* the step in which a createWallet or getWalletBalance call c ends while a
\* wallet of its (userId, currency) pair exists
CreateForExistingPair(c) ==
  /\ calls'[c].op \in {"createWallet", "getWalletBalance"}
  /\ calls'[c].pc = "done"
  /\ c \in DOMAIN calls => calls[c].pc # "done"
  /\ WalletsOfPair(calls'[c].userId, calls'[c].base) # {}

\* C20: after every step there is at most one wallet per (userId, currency)
\* pair, and a creation for a pair that has a wallet adds no wallet: it
\* returns the existing wallet or is rejected.
C20_OneWalletPerUserCurrency ==
  [][/\ \A w1 \in DOMAIN wallets', w2 \in DOMAIN wallets' :
          ( /\ wallets'[w1].userId = wallets'[w2].userId
            /\ wallets'[w1].currency = wallets'[w2].currency ) => w1 = w2
     /\ \A c \in DOMAIN calls' :
          CreateForExistingPair(c)
          => /\ wallets' = wallets
             /\ \/ /\ calls'[c].code = "OK"
                   /\ calls'[c].walletId
                        \in WalletsOfPair(calls'[c].userId, calls'[c].base)
                \/ calls'[c].code = "UNKNOWN"]_vars

\* C20 witness: a createWallet that found no wallet of its pair and whose
\* insert was rejected because another call had created the wallet meanwhile.
C20_Witness ==
  \E c \in DOMAIN calls, d \in DOMAIN calls :
    /\ c # d
    /\ calls[c].op = "createWallet"
    /\ calls[c].code = "UNKNOWN"
    /\ calls[d].op \in {"createWallet", "getWalletBalance", "buyForex"}
    /\ calls[d].code = "OK"
    /\ calls[d].walletId # 0
    /\ WalletsOfPair(calls[c].userId, calls[c].base) # {}
    /\ Cardinality(WalletsOfPair(calls[c].userId, calls[c].base)) = 1

\* the rows of wallet w that the step adds to the ledger
InsertedRows(w) ==
  {i \in (Len(walletTxns) + 1)..Len(walletTxns') : walletTxns'[i].wallet = w}

BalanceBefore(w) == IF w \in DOMAIN wallets THEN wallets[w].balance ELSE 0

\* C21: every step keeps the existing WalletTransaction rows and wallets as
\* they are (rows are only appended, no wallet is deleted), inserts at most
\* one row per wallet, and inserts a row of a wallet exactly when it changes
\* the balance of that wallet.
C21_LedgerAppendOnly ==
  [][/\ Len(walletTxns') >= Len(walletTxns)
     /\ SubSeq(walletTxns', 1, Len(walletTxns)) = walletTxns
     /\ Len(wallets') >= Len(wallets)
     /\ \A w \in DOMAIN wallets :
          /\ wallets'[w].userId = wallets[w].userId
          /\ wallets'[w].currency = wallets[w].currency
     /\ \A w \in DOMAIN wallets' :
          /\ Cardinality(InsertedRows(w)) <= 1
          /\ InsertedRows(w) # {} <=> wallets'[w].balance # BalanceBefore(w)]_vars

\* the step in which execution e ends in succeedOrder or in a hard
\* failOrder whose notifyUser call fails
NotificationFails(e) ==
  /\ execs[e].pc # "done"
  /\ execs'[e].pc = "done"
  /\ \/ execs'[e].observed = "OK" /\ execs'[e].fault = 2
     \/ execs'[e].observed # "OK" /\ execs'[e].fault = 3

\* the outcome of such an execution had the notification been sent
OutcomeAsNotified(e) ==
  LET o == execs[e].order
      t == execs[e].txn
  IN IF execs'[e].observed = "OK"
     THEN /\ orders'[o].status = "COMPLETED"
          /\ forexTxns'[t].status = "COMPLETED"
          /\ forexTxns'[t].exchangeRate = calls[execs[e].call].rate
     ELSE /\ orders'[o].status = "FAILED"
          /\ forexTxns'[t].status = "FAILED"

\* C22: when notifyUser fails after succeedOrder or a hard failOrder, the
\* order and its ForexTransaction have the statuses they would have had, no
\* wallet changes, and the execution ends without an error.
C22_NotificationFailureSwallowed ==
  [][\A e \in DOMAIN execs :
       NotificationFails(e)
       => ( /\ OutcomeAsNotified(e)
            /\ wallets' = wallets
            /\ walletTxns' = walletTxns
            /\ ~execs'[e].threw )]_vars

\* an execution attempt of order o saw an error that is permanent
PermanentlyFailed(o) ==
  \E e \in AttemptsOf(o) :
    execs[e].pc = "done" /\ execs[e].observed \in {"NOT_FOUND", "INVALID_ARGUMENT"}

Succeeded(o) ==
  \E e \in AttemptsOf(o) : execs[e].pc = "done" /\ execs[e].observed = "OK"

C24_EveryOrderTerminates ==
  \A o \in 1..MaxOrders :
    (o \in DOMAIN orders /\ orders[o].status = "PENDING")
      ~> (o \in DOMAIN orders /\ orders[o].status \in {"COMPLETED", "FAILED"})

\* the transaction of buyForex call c commits in this step
BuyForexCommits(c) ==
  /\ calls[c].op = "buyForex"
  /\ calls[c].pc = "save"
  /\ calls'[c].pc = "done"
  /\ calls'[c].code = "OK"

\* the wallet of the user of call c in the target currency, after the step
TargetWalletAfter(c) ==
  {w \in DOMAIN wallets' :
     /\ wallets'[w].userId = calls[c].userId
     /\ wallets'[w].currency = calls[c].target}

\* the execution e of an order receives the answer of a committed transfer
ObservesSuccess(e) ==
  /\ execs[e].kind \in {"buy", "retry"}
  /\ execs[e].pc # "done"
  /\ execs'[e].pc = "done"
  /\ execs'[e].observed = "OK"

\* C25: a successful buy of amount a at rate r takes a from the base
\* balance, adds a * r to the user's target wallet (created with that
\* balance if the user had none), inserts exactly the DEBIT and the CREDIT
\* row, and ends with order and transaction COMPLETED with exchangeRate r
\* and targetAmount a * r.
C25_SuccessfulBuyEffect ==
  [][ /\ \A c \in DOMAIN calls :
           BuyForexCommits(c)
           => LET a == calls[c].amount
                  t == targetWalletAmount(calls[c])
                  b == calls[c].walletId
              IN /\ wallets'[b].balance = wallets[b].balance - a
                 /\ \E w \in TargetWalletAfter(c) :
                      /\ w # b
                      /\ wallets'[w].balance
                           = (IF w \in DOMAIN wallets
                              THEN wallets[w].balance ELSE 0) + t
                      /\ walletTxns'
                           = walletTxns
                             \o << [wallet |-> b, type |-> "debit", amount |-> a],
                                   [wallet |-> w, type |-> "credit", amount |-> t] >>
                 /\ WalletsOfPair(calls[c].userId, calls[c].target) # {}
                      => Len(wallets') = Len(wallets)
      /\ \A e \in DOMAIN execs :
           ObservesSuccess(e)
           => LET c == calls[execs[e].call]
              IN /\ orders'[execs[e].order].status = "COMPLETED"
                 /\ forexTxns'[execs[e].txn].status = "COMPLETED"
                 /\ forexTxns'[execs[e].txn].exchangeRate = c.rate
                 /\ forexTxns'[execs[e].txn].targetAmount = targetWalletAmount(c)
    ]_vars

\* C26: a buyForex request of user U debits and credits only wallets whose
\* userId is U.
C26_OnlyOwnWallets ==
  \A c \in DOMAIN calls :
    BuyForexCommitted(c)
    => /\ wallets[calls[c].walletId].userId = calls[c].userId
       /\ calls[c].targetId # 0
            => wallets[calls[c].targetId].userId = calls[c].userId

\* order o has a COMPLETED transaction in the given transaction table
HasCompletedTransaction(txns, o) ==
  \E t \in DOMAIN txns : txns[t].orderId = o /\ txns[t].status = "COMPLETED"

\* C27: in every committed state an order is COMPLETED if and only if it has
\* a COMPLETED transaction, a transaction is COMPLETED if and only if its
\* exchangeRate and targetAmount are both set (0 stands for null), and order
\* and transaction become COMPLETED in one step.
C27_CompletedTogether ==
  [][ /\ \A o \in DOMAIN orders' :
           orders'[o].status = "COMPLETED" <=> HasCompletedTransaction(forexTxns', o)
      /\ \A t \in DOMAIN forexTxns' :
           forexTxns'[t].status = "COMPLETED"
           <=> (forexTxns'[t].exchangeRate # 0 /\ forexTxns'[t].targetAmount # 0)
      /\ \A o \in DOMAIN orders :
           (orders[o].status # "COMPLETED" /\ orders'[o].status = "COMPLETED")
           => ~HasCompletedTransaction(forexTxns, o)
    ]_vars

\* execution e invokes the wallet transfer in this step
InvokesWallet(e) ==
  /\ execs'[e].kind \in {"buy", "retry"}
  /\ execs'[e].call # 0
  /\ e \in DOMAIN execs => execs[e].call = 0

\* C28: the order row is persisted PENDING with retryAttempts 0, then a
\* ForexTransaction is persisted INITIATED with null exchangeRate and
\* targetAmount (0 stands for null), and only then is the wallet transfer
\* invoked; buyForex ends with the outcome of that execution.
C28_OrderThenTransactionThenTransfer ==
  [][ /\ \A o \in DOMAIN orders' \ DOMAIN orders :
           orders'[o].status = "PENDING" /\ orders'[o].retryAttempts = 0
      /\ \A e \in DOMAIN execs' :
           InvokesWallet(e)
           => LET o == execs'[e].order
                  t == execs'[e].txn
                  c == execs'[e].call
              IN /\ o \in DOMAIN orders'
                 /\ execs'[e].kind = "buy" => o \notin DOMAIN orders
                 /\ t \in DOMAIN forexTxns' \ DOMAIN forexTxns
                 /\ forexTxns'[t]
                      = [orderId |-> o, status |-> "INITIATED", exchangeRate |-> 0,
                         targetAmount |-> 0, errorStatus |-> "NONE"]
                 /\ c \in DOMAIN calls' \ DOMAIN calls
                 /\ calls'[c].pc = "requested"
                 /\ calls'[c].exec = e
      /\ \A e \in DOMAIN execs :
           (execs[e].kind = "buy" /\ execs[e].pc # "done" /\ execs'[e].pc = "done")
           => /\ calls[execs[e].call].pc = "done"
              /\ execs'[e].observed # "NONE"
              /\ execs'[e].observed \in {calls[execs[e].call].code, "UNAVAILABLE"}
    ]_vars

\* C28 witness: buyForex has saved the order and its INITIATED transaction
\* and waits for the wallet transfer it has just invoked.
C28_Witness ==
  \E e \in DOMAIN execs :
    /\ execs[e].kind = "buy"
    /\ execs[e].pc = "awaitWallet"
    /\ calls[execs[e].call].pc = "requested"
    /\ orders[execs[e].order].status = "PENDING"
    /\ orders[execs[e].order].retryAttempts = 0
    /\ forexTxns[execs[e].txn].status = "INITIATED"
    /\ forexTxns[execs[e].txn].exchangeRate = 0

\* buyForex call c ends before its database transaction although the base
\* wallet exists and holds the amount: the rate lookup failed
RateLookupFails(c) ==
  /\ calls[c].op = "buyForex"
  /\ calls[c].pc = "requested"
  /\ calls'[c].pc = "done"
  /\ WalletsOfCurrency(calls[c].base) # {}
  /\ \A w \in WalletsOfCurrency(calls[c].base) :
       validateSufficientFund(wallets[w].balance, calls[c].amount)

\* execution e receives the answer of a wallet call whose rate lookup failed
\* and failOrder runs to its end
ObservesRateFailure(e) ==
  /\ execs[e].kind \in {"buy", "retry"}
  /\ execs[e].pc = "awaitWallet"
  /\ execs'[e].pc = "done"
  /\ execs'[e].observed = calls[execs[e].call].code
  /\ execs'[e].fault = 0
  /\ calls[execs[e].call].code = "ABORTED"
  /\ calls[execs[e].call].rate = 0

InWalletTransaction(c) == c.pc \in {"findTarget", "save"}

\* the status order and transaction carry when notification m is emitted
NotifiedStatus(m) == IF m.type = "success" THEN "COMPLETED" ELSE "FAILED"

\* C30: no external call runs inside a database transaction: the rate
\* lookup has completed when the wallet transaction begins and is not made
\* again, wallets are written only by the transaction of a call that holds
\* its rate, and a notification is emitted only when the status update of
\* its order and transaction is committed.
C30_NoExternalCallInTransaction ==
  [][ /\ \A c \in DOMAIN calls :
           calls[c].op = "buyForex"
           => /\ InWalletTransaction(calls'[c]) => calls'[c].rate # 0
              /\ calls[c].pc # "requested" => calls'[c].rate = calls[c].rate
      /\ (wallets' # wallets \/ walletTxns' # walletTxns)
           => \E c \in DOMAIN calls :
                /\ calls[c].pc = "save"
                /\ calls'[c].pc = "done"
                /\ calls[c].op = "buyForex" => calls[c].rate # 0
      /\ \A n \in DOMAIN notifications' \ DOMAIN notifications :
           LET m == notifications'[n]
           IN /\ m.type \in {"success", "failure"}
              /\ orders'[m.orderId].status = NotifiedStatus(m)
              /\ forexTxns'[m.transactionId].status = NotifiedStatus(m)
    ]_vars

\* C30 witness: a transfer made at a fetched rate is committed and the
\* success notification of its COMPLETED order has been emitted.
C30_Witness ==
  \E n \in DOMAIN notifications, c \in DOMAIN calls :
    /\ notifications[n].type = "success"
    /\ orders[notifications[n].orderId].status = "COMPLETED"
    /\ forexTxns[notifications[n].transactionId].status = "COMPLETED"
    /\ BuyForexCommitted(c)
    /\ calls[c].rate # 0
    /\ calls[c].exec # 0

\* a delivery of job j starts its handler in this step
StartsHandleRetry(j) ==
  /\ queue'[j].deliveries = queue[j].deliveries + 1
  /\ Len(execs') = Len(execs) + 1
  /\ execs'[Len(execs')].kind = "retry"
  /\ execs'[Len(execs')].job = j
  /\ execs'[Len(execs')].pc = "retryLoad"
  /\ execs'[Len(execs')].call = 0

\* an execution of buyForex, processForexPurchase, succeedOrder or failOrder
\* moves in this step
TransactionServiceStep ==
  \/ Len(orders') > Len(orders)
  \/ \E e \in DOMAIN execs :
       execs[e].pc \in {"awaitWallet", "retryLoad"} /\ execs'[e] # execs[e]

\* C31: retryAttempts of an order is changed only by handleRetry, by exactly
\* 1 per handled job and before the order is executed again; buyForex,
\* processForexPurchase, succeedOrder and failOrder leave it unchanged.
C31_RetryAttemptsOnlyByHandleRetry ==
  [][ /\ \A o \in DOMAIN orders :
           orders'[o].retryAttempts # orders[o].retryAttempts
           => /\ orders'[o].retryAttempts = orders[o].retryAttempts + 1
              /\ \E j \in DOMAIN queue :
                   queue[j].orderId = o /\ StartsHandleRetry(j)
      /\ \A j \in DOMAIN queue :
           queue'[j].deliveries # queue[j].deliveries
           => orders'[queue[j].orderId].retryAttempts
                = orders[queue[j].orderId].retryAttempts + 1
      /\ TransactionServiceStep
           => \A o \in DOMAIN orders :
                orders'[o].retryAttempts = orders[o].retryAttempts
      /\ \A o \in DOMAIN orders' \ DOMAIN orders : orders'[o].retryAttempts = 0
    ]_vars

\* C31 witness: two jobs of an order were handled; its retryAttempts is 2
\* and the second handler has executed the order again and failed it.
C31_Witness ==
  \E o \in DOMAIN orders :
    /\ orders[o].retryAttempts = 2
    /\ Cardinality({e \in DOMAIN execs :
                      execs[e].kind = "retry" /\ execs[e].order = o}) = 2
    /\ \E e \in DOMAIN execs :
         /\ execs[e].kind = "retry"
         /\ execs[e].order = o
         /\ execs[e].pc = "done"
         /\ execs[e].observed = "INVALID_ARGUMENT"
         /\ orders[o].status = "FAILED"

\* the handler e of a retry job finds the job's order or transaction missing
\* and ends in this step
HandlesStaleJob(e) ==
  /\ execs[e].kind = "retry"
  /\ execs[e].pc = "retryLoad"
  /\ execs'[e].pc # "retryLoad"
  /\ \/ execs[e].order \notin DOMAIN orders
     \/ execs[e].txn \notin DOMAIN forexTxns

\* C32: a retry job whose order or whose ForexTransaction does not exist is
\* dropped without error: no execution attempt, nothing marked FAILED, no
\* notification, no new job.
C32_StaleJobDiscarded ==
  [][\A e \in DOMAIN execs :
       HandlesStaleJob(e)
       => /\ execs'[e].pc = "done"
          /\ ~execs'[e].threw
          /\ execs'[e].call = 0
          /\ calls' = calls
          /\ \A o \in DOMAIN orders : orders'[o].status = orders[o].status
          /\ forexTxns' = forexTxns
          /\ notifications' = notifications
          /\ queue' = queue
          /\ wallets' = wallets
          /\ walletTxns' = walletTxns]_vars

\* C32 witness: the job that names a missing transaction of an existing
\* PENDING order was handled and dropped; the order is still PENDING.
C32_Witness ==
  \E e \in DOMAIN execs :
    /\ execs[e].kind = "retry"
    /\ execs[e].pc = "done"
    /\ execs[e].call = 0
    /\ execs[e].order \in DOMAIN orders
    /\ execs[e].txn \notin DOMAIN forexTxns
    /\ orders[execs[e].order].status = "PENDING"
    /\ notifications = << >>

\* the wallet that has the id and the user of a fundWallet/withdrawWallet call
RequestedWallet(c) ==
  {w \in DOMAIN wallets : w = c.walletId /\ wallets[w].userId = c.userId}

\* a fundWallet or withdrawWallet call arrives in this step
WalletCallArrives ==
  /\ Len(calls') = Len(calls) + 1
  /\ calls'[Len(calls')].op \in {"fund", "withdraw"}

\* the rows of the ledger before and after the step that are not of wallet w
RowsNotOf(txns, w) == SelectSeq(txns, LAMBDA r : r.wallet # w)

\* C33: fundWallet and withdrawWallet change only the wallet that has
\* request.walletId and request.userId; when there is none the call fails
\* with NOT_FOUND and no balance and no WalletTransaction row changes.
C33_OnlyRequestedWallet ==
  [][ /\ WalletCallArrives
           => LET c == calls'[Len(calls')]
              IN /\ wallets' = wallets
                 /\ walletTxns' = walletTxns
                 /\ RequestedWallet(c) = {}
                      => (c.pc = "done" /\ c.code = "NOT_FOUND")
      /\ \A c \in DOMAIN calls :
           (calls[c].op \in {"fund", "withdraw"} /\ calls'[c] # calls[c])
           => /\ calls[c].pc = "save"
              /\ RequestedWallet(calls[c]) = {calls[c].walletId}
              /\ Len(wallets') = Len(wallets)
              /\ \A w \in DOMAIN wallets :
                   w # calls[c].walletId => wallets'[w] = wallets[w]
              /\ RowsNotOf(walletTxns', calls[c].walletId)
                   = RowsNotOf(walletTxns, calls[c].walletId)
    ]_vars

\* C33 witness: a user's call for the other user's wallet was refused with
\* NOT_FOUND, and a call of that wallet's owner was committed.
C33_Witness ==
  \E c, d \in DOMAIN calls :
    /\ calls[c].op \in {"fund", "withdraw"}
    /\ calls[c].walletId \in DOMAIN wallets
    /\ wallets[calls[c].walletId].userId # calls[c].userId
    /\ calls[c].pc = "done"
    /\ calls[c].code = "NOT_FOUND"
    /\ calls[d].op = "fund"
    /\ calls[d].walletId = calls[c].walletId
    /\ calls[d].pc = "done"
    /\ calls[d].code = "OK"

\* C34: a buy order whose amount is zero or negative never changes a
\* wallet balance and never inserts a WalletTransaction row.
C34_NonPositiveAmountNoEffect ==
  [][\A c \in DOMAIN calls :
       ( /\ calls[c].op = "buyForex"
         /\ calls[c].amount <= 0
         /\ calls'[c] # calls[c] )
       => (wallets' = wallets /\ walletTxns' = walletTxns)]_vars

\* C35: a ForexTransaction that is COMPLETED is never modified afterwards:
\* no retry, failure path or exhaustion path changes its status, exchangeRate
\* or targetAmount.
C35_CompletedTransactionFrozen ==
  [][\A t \in DOMAIN forexTxns :
       forexTxns[t].status = "COMPLETED" => forexTxns'[t] = forexTxns[t]]_vars

\* C35 witness: after a transaction of an order was COMPLETED, a later
\* execution of the same order ran its failure path and marked the order
\* FAILED; the transaction still carries COMPLETED and its rate.
C35_Witness ==
  \E t \in DOMAIN forexTxns :
    /\ forexTxns[t].status = "COMPLETED"
    /\ forexTxns[t].exchangeRate # 0
    /\ forexTxns[t].targetAmount # 0
    /\ orders[forexTxns[t].orderId].status = "FAILED"

\* a cancelLimitOrder call of limit order l returned the cancelled order
CancelSucceeded(l) ==
  \E e \in CancelExecs :
    execs[e].limit = l /\ execs[e].pc = "done" /\ execs[e].observed = "OK"

\* a wallet transfer of an execution of limit order l is committed
LimitTransferCommitted(l) ==
  \E e \in LimitExecs : execs[e].limit = l /\ BuyForexCommitted(execs[e].call)

\* C36: a limit order whose cancellation succeeded is CANCELLED and has no
\* wallet transfer, under every interleaving of cancelLimitOrder,
\* executeLimitOrder and expireOldLimitOrders; and a cancellation goes on to
\* its save only for an order it found PENDING.
C36_CancelledStaysCancelled ==
  /\ \A e \in CancelExecs :
       execs[e].pc = "cancelSave" => execs[e].entity.status = "PENDING"
  /\ \A l \in DOMAIN limitOrders :
       CancelSucceeded(l)
       => (limitOrders[l].status = "CANCELLED" /\ ~LimitTransferCommitted(l))

\* C37: a limit order left FAILED by executeLimitOrder has no committed wallet
\* transfer, and an execution that ended with its transfer committed left the
\* limit order COMPLETED and linked to a ForexOrder.
C37_FailedMeansNoTransfer ==
  \A e \in LimitExecs :
    execs[e].pc = "done"
    => /\ execs[e].entity.status = "FAILED" => ~BuyForexCommitted(execs[e].call)
       /\ BuyForexCommitted(execs[e].call)
          => /\ execs[e].entity.status = "COMPLETED"
             /\ execs[e].entity.forexOrderId \in DOMAIN orders

\* a run of checkPendingLimitOrders: the check count of some order goes up
CheckRun ==
  \E l \in DOMAIN limitOrders :
    limitOrders'[l].checkCount > limitOrders[l].checkCount

\* C38: a run of the limit-order check increments checkCount and sets
\* lastCheckedAt of every PENDING limit order, and every PENDING order whose
\* rate condition is met by the current rate is executed by the run (it has
\* left PENDING when the run ends).
C38_CheckExecutesMetOrders ==
  [][CheckRun
     => \A l \in DOMAIN limitOrders :
          limitOrders[l].status = "PENDING"
          => /\ limitOrders'[l].checkCount = limitOrders[l].checkCount + 1
             /\ limitOrders'[l].lastCheckedAt = now
             /\ \A r \in Rates :
                  checkRateCondition(r, limitOrders[l].targetRate,
                                     limitOrders[l].condition)
                  => limitOrders'[l].status # "PENDING"]_vars

\* limit order l is PENDING with a non-null expiresAt earlier than now
ExpiryDue(l) ==
  /\ limitOrders[l].status = "PENDING"
  /\ limitOrders[l].expiresAt # 0
  /\ limitOrders[l].expiresAt < now

\* a step in which limit order l becomes EXPIRED
Expires(l) ==
  limitOrders[l].status # "EXPIRED" /\ limitOrders'[l].status = "EXPIRED"

\* C39: the limit orders a step turns EXPIRED are PENDING with a non-null
\* expiresAt earlier than now, and such a step expires every order of that
\* kind and leaves every other limit order (good-til-cancelled, not yet due,
\* or in another status) exactly as it was.
C39_ExpiresExactlyDueOrders ==
  [][(\E k \in DOMAIN limitOrders : Expires(k))
     => \A l \in DOMAIN limitOrders :
          limitOrders'[l] = IF ExpiryDue(l)
                            THEN [limitOrders[l] EXCEPT !.status = "EXPIRED"]
                            ELSE limitOrders[l]]_vars

\* an order was expired while a good-til-cancelled order is still PENDING,
\* or an order in another status was left as it was
C39_Witness ==
  \E l, k \in DOMAIN limitOrders :
    /\ limitOrders[l].status = "EXPIRED"
    /\ limitOrders[l].expiresAt # 0
    /\ limitOrders[k].status = "PENDING"
    /\ limitOrders[k].expiresAt = 0
    /\ now > 1

\* the sockets that are connected: handleConnection ran for them and
\* handleDisconnect did not
ConnectedSockets == {s \in DOMAIN sockets : sockets[s].open}

\* C40: after any sequence of connect, subscribe, unsubscribe and disconnect
\* events, a broadcast of from:to has sent one rate-update of that key to
\* exactly the connected sockets whose client subscribes to from:to and
\* nothing to any other socket; and the registry holds exactly the clients
\* of the connected sockets, so a disconnected client is gone from it with
\* its subscriptions.
C40_BroadcastToSubscribers ==
  /\ DOMAIN clients = {sockets[s].clientId : s \in ConnectedSockets}
  /\ lastEvent.kind = "broadcast"
     => wsSent = {Message(s, "rate-update", lastEvent.key) :
                    s \in {c \in ConnectedSockets :
                             lastEvent.key \in clients[sockets[c].clientId]}}

\* a broadcast reached a subscribed socket while another socket, which had
\* connected and was disconnected, got nothing
C40_Witness ==
  /\ lastEvent.kind = "broadcast"
  /\ \E s, d \in DOMAIN sockets :
       /\ sockets[s].open
       /\ ~sockets[d].open
       /\ Message(s, "rate-update", lastEvent.key) \in wsSent
       /\ Message(d, "rate-update", lastEvent.key) \notin wsSent

====
